---- MODULE Spec2Model ----
(***************************************************************************)
(* DataFetcherMini (skdaccess/planetary/ode/cache/data_fetcher_mini.py):   *)
(* the constructor with its range assertions, and output(), which asks the *)
(* ODE resolver for the file URLs, fetches them through the cache and      *)
(* groups the decoded browse images by product and description.            *)
(***************************************************************************)
EXTENDS Integers, Sequences, FiniteSets, TLC

VARIABLES
    pc,                \* position of the object / of the running output() call
    args,              \* the arguments the constructor was called with
    self,              \* the attributes set by __init__ (<<>> before construction)
    err,               \* the exception that left the constructor or output()
    file_urls,         \* local of output(): the resolver's ordered mapping
    downloaded_files,  \* local of output(): the cache's list of local paths
    idx,               \* number of zip pairs the for loop has consumed
    data_dict,         \* local of output(): the OrderedDict being filled
    ret,               \* <<>> or <<wrapper>>: what output() returned
    resolverLog,       \* one record per query_files_urls call
    cacheLog,          \* one record per cacheData call
    decodeLog          \* one path per mpimg.imread call

vars == <<pc, args, self, err, file_urls, downloaded_files, idx, data_dict,
          ret, resolverLog, cacheLog, decodeLog>>

----------------------------------------------------------------------------
(* Bounds and input domains *)

\* longest mapping the resolver returns in the model
MaxEntries == 3

\* Python's None for an optional number; a given number x is <<x>>
NoneV == <<>>

Some(x) == <<x>>

LonInputs == {NoneV} \cup {Some(x) : x \in {-1, 0, 180, 360, 361}}

LatInputs == {NoneV} \cup {Some(x) : x \in {-91, -90, 0, 90, 91}}

LimitInputs == {0, 1, 10, 100, 101}

OffsetInputs == {-1, 0, 5}

Products == {"P1", "P2"}

Descriptions == {"imgA", "imgB"}

\* remote locations (the keys of the resolver's mapping)
Urls == {"u1", "u2", "u3", "u4", "u5", "u6"}

\* file suffixes tested by output(), as character sequences
DotJpg == <<".", "j", "p", "g">>

DotPng == <<".", "p", "n", "g">>

\* the local path the cache stores a remote location under
LocalPath(url) ==
    CASE url = "u1" -> <<"a", ".", "j", "p", "g">>
      [] url = "u2" -> <<"b", ".", "p", "n", "g">>
      [] url = "u3" -> <<"c", ".", "j", "p", "g">>
      [] url = "u4" -> <<"d", ".", "p", "n", "g">>
      [] url = "u5" -> <<"e", ".", "l", "b", "l">>
      [] OTHER      -> <<"c", ".", "j", "p", "g", ".", "x", "m", "l">>

\* what is stored at a local path: pixel data, or bytes no decoder accepts
Corrupt == "corrupt"

Disk(path) ==
    CASE path = LocalPath("u1") -> "img1"
      [] path = LocalPath("u2") -> "img2"
      [] path = LocalPath("u3") -> "img3"
      [] OTHER                  -> Corrupt

----------------------------------------------------------------------------
(* Python helpers *)

Min(a, b) == IF a <= b THEN a ELSE b

\* str.endswith
EndsWith(s, suffix) ==
    /\ Len(s) >= Len(suffix)
    /\ SubSeq(s, Len(s) - Len(suffix) + 1, Len(s)) = suffix

Max(a, b) == IF a >= b THEN a ELSE b

\* itertools.zip_longest in place of zip: the shorter side is padded with None
ZipLongest(xs, ys) ==
    [i \in 1..Max(Len(xs), Len(ys)) |->
        <<IF i <= Len(xs) THEN xs[i] ELSE <<>>, IF i <= Len(ys) THEN ys[i] ELSE "None">>]

\* zip(xs, ys): pairs up to the shorter of the two
Zip(xs, ys) == [i \in 1..Min(Len(xs), Len(ys)) |-> <<xs[i], ys[i]>>]

\* An OrderedDict is a sequence of [key, value] items in insertion order.
OrderedDict == <<>>

Keys(od) == [i \in 1..Len(od) |-> od[i].key]

HasKey(od, k) == \E i \in 1..Len(od) : od[i].key = k

\* od.get(k): <<>> for None, <<value>> otherwise
Get(od, k) ==
    IF HasKey(od, k)
    THEN <<od[CHOOSE i \in 1..Len(od) : od[i].key = k].value>>
    ELSE <<>>

\* od[k] = v : an existing key keeps its position, a new key goes last
SetItem(od, k, v) ==
    IF HasKey(od, k)
    THEN [i \in 1..Len(od) |-> IF od[i].key = k THEN [key |-> k, value |-> v] ELSE od[i]]
    ELSE Append(od, [key |-> k, value |-> v])

----------------------------------------------------------------------------
(* __init__ *)

InRange(lo, v, hi) == lo <= v /\ v <= hi

\* a longitude check with strict comparisons
LonOkExclusive(lon) == lon = NoneV \/ (0 < lon[1] /\ lon[1] < 360)

\* the operand of each assert of __init__
LonOk(lon) == lon = NoneV \/ InRange(0, lon[1], 360)

LatOk(lat) == lat = NoneV \/ InRange(-90, lat[1], 90)

LimitOk(limit) == InRange(1, limit, 100)

AssertsPass(a) ==
    /\ LonOk(a.western_lon)
    /\ LonOk(a.eastern_lon)
    /\ LatOk(a.min_lat)
    /\ LatOk(a.max_lat)
    /\ LimitOk(a.number_product_limit)

CtorArgs ==
    [western_lon : LonInputs, eastern_lon : LonInputs,
     min_lat : LatInputs, max_lat : LatInputs,
     number_product_limit : LimitInputs, result_offset_number : OffsetInputs]

\* the attributes __init__ assigns from its numeric arguments, plus limit_file_types
Attributes(a) ==
    [western_lon |-> a.western_lon, eastern_lon |-> a.eastern_lon,
     min_lat |-> a.min_lat, max_lat |-> a.max_lat,
     number_product_limit |-> a.number_product_limit,
     result_offset_number |-> a.result_offset_number,
     limit_file_types |-> "Browse"]

DefaultArgs ==
    [western_lon |-> NoneV, eastern_lon |-> NoneV, min_lat |-> NoneV,
     max_lat |-> NoneV, number_product_limit |-> 10, result_offset_number |-> 0]

Construct ==
    /\ pc = "new"
    /\ \E a \in CtorArgs :
        /\ args' = <<a>>
        /\ IF AssertsPass(a)
           THEN /\ self' = <<Attributes(a)>>
                /\ pc' = "constructed"
                /\ err' = "none"
           ELSE /\ self' = <<>>
                /\ pc' = "ctor_failed"
                /\ err' = "AssertionError"
    /\ UNCHANGED <<file_urls, downloaded_files, idx, data_dict, ret,
                   resolverLog, cacheLog, decodeLog>>

InitNew ==
    /\ pc = "new"
    /\ args = <<>>
    /\ self = <<>>
    /\ err = "none"
    /\ file_urls = <<>>
    /\ downloaded_files = <<>>
    /\ idx = 0
    /\ data_dict = <<>>
    /\ ret = <<>>
    /\ resolverLog = <<>>
    /\ cacheLog = <<>>
    /\ decodeLog = <<>>

NextCtor == Construct

SpecCtor == InitNew /\ [][NextCtor]_vars
----------------------------------------------------------------------------
(* The collaborators of output() *)

\* one item of the resolver's mapping: the key is the remote location, the
\* value is (product id, description, remote location)
Entries ==
    {[key |-> u, value |-> <<p, d, u>>] : u \in Urls, p \in Products, d \in Descriptions}

DistinctKeys(m) == \A i, j \in 1..Len(m) : m[i].key = m[j].key => i = j

\* query_files_urls may return any ordered mapping of at most MaxEntries items
ResolverMappings ==
    UNION {{m \in [1..n -> Entries] : DistinctKeys(m)} : n \in 0..MaxEntries}

ResolverErrors == {"NoResultsError", "RemoteQueryError"}

\* the paths cacheData owes for a list of locations, in the order given
CachedPaths(locations) == [i \in 1..Len(locations) |-> LocalPath(locations[i])]

\* what cacheData may hand back: the owed list, or a list of another length
\* (a prefix of it, or the list with one more path)
CacheResults(locations) ==
    {SubSeq(CachedPaths(locations), 1, n) : n \in 0..Len(locations)}
        \cup {Append(CachedPaths(locations), p) : p \in {LocalPath("u1"), LocalPath("u5")}}

\* mpimg.imread: the pixel data stored at the path, Corrupt when it raises
imread(file) == Disk(file)

----------------------------------------------------------------------------
(* output() *)

\* the argument list of the query_files_urls call
ResolverArgs(s) ==
    [western_lon |-> s.western_lon, eastern_lon |-> s.eastern_lon,
     min_lat |-> s.min_lat, max_lat |-> s.max_lat,
     number_product_limit |-> s.number_product_limit,
     result_offset_number |-> s.result_offset_number,
     limit_file_types |-> s.limit_file_types]

\* the keys handed to cacheData in reverse order
CacheArgsReversed(m) ==
    [namespace |-> "ode", locations |-> [i \in 1..Len(m) |-> m[Len(m) + 1 - i].key]]

\* the arguments of the cacheData call
CacheArgs(m) == [namespace |-> "ode", locations |-> Keys(m)]

\* the pairs the for loop walks
Pairs == Zip(downloaded_files, Keys(file_urls))

\* substring test
Contains(s, sub) ==
    \E i \in 1..(Len(s) - Len(sub) + 1) : SubSeq(s, i, i + Len(sub) - 1) = sub

\* '.jpg' in file or '.png' in file, in place of endswith
EligibleAnywhere(file) == Contains(file, DotJpg) \/ Contains(file, DotPng)

\* the suffix test guarding the loop body
Eligible(file) == EndsWith(file, DotJpg) \/ EndsWith(file, DotPng)

\* the inner mapping created for every entry, without the None test
EnsureProductAlways(dd, product) == SetItem(dd, product, OrderedDict)

\* if data_dict.get(product, None) is None: data_dict[product] = OrderedDict()
EnsureProduct(dd, product) ==
    IF Get(dd, product) = <<>> THEN SetItem(dd, product, OrderedDict) ELSE dd

\* setdefault in place of assignment: the first image of a pair is kept
StoreKeepFirst(dd, product, description, image) ==
    IF HasKey(Get(dd, product)[1], description)
    THEN dd
    ELSE SetItem(dd, product, SetItem(Get(dd, product)[1], description, image))

\* data_dict[product][file_description] = image
Store(dd, product, description, image) ==
    SetItem(dd, product, SetItem(Get(dd, product)[1], description, image))

ImageWrapper(obj_wrap) == [obj_wrap |-> obj_wrap]

Resolve ==
    /\ pc = "constructed"
    /\ resolverLog' = Append(resolverLog, ResolverArgs(self[1]))
    /\ \/ \E m \in ResolverMappings :
            /\ file_urls' = m
            /\ pc' = "resolved"
            /\ err' = err
       \/ \E e \in ResolverErrors :
            /\ file_urls' = file_urls
            /\ pc' = "failed"
            /\ err' = e
    /\ UNCHANGED <<args, self, downloaded_files, idx, data_dict, ret,
                   cacheLog, decodeLog>>

Fetch ==
    /\ pc = "resolved"
    /\ cacheLog' = Append(cacheLog, CacheArgs(file_urls))
    /\ \/ \E files \in CacheResults(CacheArgs(file_urls).locations) :
            /\ downloaded_files' = files
            /\ data_dict' = OrderedDict
            /\ pc' = "assembling"
            /\ err' = err
       \/ /\ CacheArgs(file_urls).locations # <<>>
          /\ downloaded_files' = downloaded_files
          /\ data_dict' = data_dict
          /\ pc' = "failed"
          /\ err' = "FetchError"
    /\ UNCHANGED <<args, self, file_urls, idx, ret, resolverLog, decodeLog>>

LoopStep ==
    /\ pc = "assembling"
    /\ idx < Len(Pairs)
    /\ LET file == Pairs[idx + 1][1]
           key == Pairs[idx + 1][2]
           entry == Get(file_urls, key)
       IN  IF ~Eligible(file)
           THEN /\ idx' = idx + 1
                /\ UNCHANGED <<pc, err, data_dict, decodeLog>>
           ELSE IF entry = <<>>
           THEN /\ pc' = "failed"
                /\ err' = "TypeError"
                /\ UNCHANGED <<idx, data_dict, decodeLog>>
           ELSE LET file_description == entry[1][2]
                    product == entry[1][1]
                    created == EnsureProduct(data_dict, product)
                IN  /\ decodeLog' = Append(decodeLog, file)
                    /\ IF imread(file) = Corrupt
                       THEN /\ data_dict' = created
                            /\ pc' = "failed"
                            /\ err' = "DecodeError"
                            /\ idx' = idx
                       ELSE /\ data_dict' = Store(created, product, file_description, imread(file))
                            /\ idx' = idx + 1
                            /\ UNCHANGED <<pc, err>>
    /\ UNCHANGED <<args, self, file_urls, downloaded_files, ret, resolverLog, cacheLog>>

Return ==
    /\ pc = "assembling"
    /\ idx = Len(Pairs)
    /\ ret' = <<ImageWrapper(data_dict)>>
    /\ pc' = "done"
    /\ UNCHANGED <<args, self, err, file_urls, downloaded_files, idx, data_dict,
                   resolverLog, cacheLog, decodeLog>>

\* a fetcher built with the default arguments, output() not yet called
Init ==
    /\ pc = "constructed"
    /\ args = <<DefaultArgs>>
    /\ self = <<Attributes(DefaultArgs)>>
    /\ err = "none"
    /\ file_urls = <<>>
    /\ downloaded_files = <<>>
    /\ idx = 0
    /\ data_dict = <<>>
    /\ ret = <<>>
    /\ resolverLog = <<>>
    /\ cacheLog = <<>>
    /\ decodeLog = <<>>

Next == Resolve \/ Fetch \/ LoopStep \/ Return

Spec == Init /\ [][Next]_vars
----------------------------------------------------------------------------
(* Vocabulary of the properties *)

\* the Grouped Result carried by the returned wrapper
Grouped == ret[1].obj_wrap

EntryProduct(i) == file_urls[i].value[1]

EntryDescription(i) == file_urls[i].value[2]

EntryLocation(i) == file_urls[i].value[3]

\* the path's last four characters are ".jpg" or ".png"
HasImageSuffix(path) ==
    /\ Len(path) >= 4
    /\ <<path[Len(path) - 3], path[Len(path) - 2], path[Len(path) - 1], path[Len(path)]>>
           \in {DotJpg, DotPng}

Decodes(path) == Disk(path) # Corrupt

\* <<image>> stored under [product][description], <<>> when there is none
ImageAt(g, product, description) ==
    IF \E n \in 1..Len(g) : g[n].key = product
    THEN LET inner == g[CHOOSE n \in 1..Len(g) : g[n].key = product].value
         IN  IF \E k \in 1..Len(inner) : inner[k].key = description
             THEN <<inner[CHOOSE k \in 1..Len(inner) : inner[k].key = description].value>>
             ELSE <<>>
    ELSE <<>>

NoRepeat(s) == \A i, j \in 1..Len(s) : s[i] = s[j] => i = j

\* the elements of s in order of first occurrence
FirstSeen(s) ==
    LET first == {i \in 1..Len(s) : \A j \in 1..(i - 1) : s[j] # s[i]}
    IN  [k \in 1..Cardinality(first) |->
            s[CHOOSE i \in first : Cardinality({j \in first : j < i}) = k - 1]]

\* positions of the pairs the loop has to insert: paired, image suffix
Inserted(i) == i <= Len(downloaded_files) /\ HasImageSuffix(downloaded_files[i])

InsertedPositions == {i \in 1..Len(file_urls) : Inserted(i)}

\* products, and descriptions of one product, of the inserted entries, in order
InsertedProducts ==
    LET pos == InsertedPositions
    IN  [k \in 1..Cardinality(pos) |->
            EntryProduct(CHOOSE i \in pos : Cardinality({j \in pos : j < i}) = k - 1)]

InsertedDescriptions(product) ==
    LET pos == {i \in InsertedPositions : EntryProduct(i) = product}
    IN  [k \in 1..Cardinality(pos) |->
            EntryDescription(CHOOSE i \in pos : Cardinality({j \in pos : j < i}) = k - 1)]

\* entry i is the last inserted entry with its (product, description) pair
LastOfPair(i) ==
    \A j \in InsertedPositions :
        (EntryProduct(j) = EntryProduct(i) /\ EntryDescription(j) = EntryDescription(i)) => j <= i

\* the cache kept its contract and every local path is a decodable image
AllDecodableImages ==
    /\ Len(downloaded_files) = Len(file_urls)
    /\ \A i \in 1..Len(downloaded_files) :
        HasImageSuffix(downloaded_files[i]) /\ Decodes(downloaded_files[i])

\* keys in first-seen order, none repeated, at both levels
FirstSeenOrder ==
    /\ Keys(Grouped) = FirstSeen(InsertedProducts)
    /\ NoRepeat(Keys(Grouped))
    /\ \A n \in 1..Len(Grouped) :
        /\ Keys(Grouped[n].value) = FirstSeen(InsertedDescriptions(Grouped[n].key))
        /\ NoRepeat(Keys(Grouped[n].value))
----------------------------------------------------------------------------
(* Properties of output() and of the constructor *)

\* C1 (as stated): when every cached path is a decodable image, the returned
\* Grouped Result holds under [product][description] of EVERY entry the image
\* decoded from the path at that entry's position, and the keys of both
\* levels are in first-seen order without repeats.
C1_EveryEntryHoldsItsImage ==
    (pc = "done" /\ AllDecodableImages) =>
        /\ \A i \in 1..Len(file_urls) :
            ImageAt(Grouped, EntryProduct(i), EntryDescription(i))
                = <<Disk(downloaded_files[i])>>
        /\ FirstSeenOrder

\* C1 (amended): when every cached path is a decodable image, the returned
\* Grouped Result holds under [product][description] the image decoded from
\* the path at the position of the last entry with that pair, it has no
\* other keys, and the keys of both levels are in first-seen order without
\* repeats.
C1_GroupingCorrect ==
    (pc = "done" /\ AllDecodableImages) =>
        /\ \A i \in 1..Len(file_urls) :
            LastOfPair(i) =>
                ImageAt(Grouped, EntryProduct(i), EntryDescription(i))
                    = <<Disk(downloaded_files[i])>>
        /\ FirstSeenOrder

\* the example of the specification: (P1,imgA), (P1,imgB), (P2,imgA) with
\* three decodable files gives {P1: {imgA, imgB}, P2: {imgA}} in that order
C1_Witness ==
    /\ pc = "done"
    /\ AllDecodableImages
    /\ Keys(file_urls) = <<"u1", "u2", "u3">>
    /\ <<EntryProduct(1), EntryDescription(1)>> = <<"P1", "imgA">>
    /\ <<EntryProduct(2), EntryDescription(2)>> = <<"P1", "imgB">>
    /\ <<EntryProduct(3), EntryDescription(3)>> = <<"P2", "imgA">>
    /\ Grouped = << [key |-> "P1", value |-> << [key |-> "imgA", value |-> "img1"],
                                                [key |-> "imgB", value |-> "img2"] >>],
                    [key |-> "P2", value |-> << [key |-> "imgA", value |-> "img3"] >>] >>

\* C2: output() never returns a Grouped Result when the cache's list of
\* local paths and the resolver's mapping differ in length.
C2_MismatchIsFatal ==
    pc = "done" => Len(downloaded_files) = Len(file_urls)

\* C3: a decode failure does not end output() while a later paired entry
\* with an image suffix and a decodable file is still to be inserted.
C3_DecodeFailureDoesNotAbort ==
    (pc = "failed" /\ err = "DecodeError") =>
        \A j \in (idx + 2)..Len(Pairs) :
            ~(HasImageSuffix(Pairs[j][1]) /\ Decodes(Pairs[j][1]))

\* C4: a path without the '.jpg' or '.png' suffix is never decoded, never
\* makes output() fail, and leaves no trace in the Grouped Result: every
\* description key and every product key of the result comes from an entry
\* whose path has an image suffix, and no product has an empty inner mapping.
C4_NonImagesSkipped ==
    /\ \A k \in 1..Len(decodeLog) : HasImageSuffix(decodeLog[k])
    /\ (pc = "failed" /\ err \in {"DecodeError", "TypeError"}) =>
            HasImageSuffix(Pairs[idx + 1][1])
    /\ pc = "done" =>
        /\ idx = Len(Pairs)
        /\ \A n \in 1..Len(Grouped) :
            /\ Grouped[n].value # <<>>
            /\ \A k \in 1..Len(Grouped[n].value) :
                \E i \in InsertedPositions :
                    /\ EntryProduct(i) = Grouped[n].key
                    /\ EntryDescription(i) = Grouped[n].value[k].key

\* P2 has only a label file and a '.jpg.xml' file: it is absent from the
\* result, which holds the one image of P1
C4_Witness ==
    /\ pc = "done"
    /\ Keys(file_urls) = <<"u5", "u1", "u6">>
    /\ <<EntryProduct(1), EntryProduct(2), EntryProduct(3)>> = <<"P2", "P1", "P2">>
    /\ Len(downloaded_files) = 3
    /\ decodeLog = <<LocalPath("u1")>>
    /\ Keys(Grouped) = <<"P1">>

\* C5: when several inserted entries share a (product, description) pair,
\* the result holds the image of the last of them, under a key that stands
\* where the pair was first seen, and the repetition raises no error.
C5_LastWriteWins ==
    /\ pc = "done" =>
        \A i, j \in InsertedPositions :
            ( /\ i < j
              /\ EntryProduct(i) = EntryProduct(j)
              /\ EntryDescription(i) = EntryDescription(j)
              /\ LastOfPair(j) ) =>
                /\ ImageAt(Grouped, EntryProduct(j), EntryDescription(j))
                       = <<Disk(downloaded_files[j])>>
                /\ Keys(Grouped) = FirstSeen(InsertedProducts)
                /\ \A n \in 1..Len(Grouped) :
                    Grouped[n].key = EntryProduct(j) =>
                        Keys(Grouped[n].value) = FirstSeen(InsertedDescriptions(EntryProduct(j)))
    /\ (pc = "failed" /\ err \notin ResolverErrors \cup {"FetchError"}) =>
            (err = "DecodeError" /\ ~Decodes(Pairs[idx + 1][1]))

\* (P1,imgA) from a.jpg, (P1,imgB) from b.png, (P1,imgA) again from c.jpg:
\* imgA keeps the first place and holds the image of c.jpg
C5_Witness ==
    /\ pc = "done"
    /\ Keys(file_urls) = <<"u1", "u2", "u3">>
    /\ Len(downloaded_files) = 3
    /\ <<EntryProduct(1), EntryDescription(1)>> = <<"P1", "imgA">>
    /\ <<EntryProduct(2), EntryDescription(2)>> = <<"P1", "imgB">>
    /\ <<EntryProduct(3), EntryDescription(3)>> = <<"P1", "imgA">>
    /\ Grouped = << [key |-> "P1", value |-> << [key |-> "imgA", value |-> "img3"],
                                                [key |-> "imgB", value |-> "img2"] >>] >>

\* the ranges the constructor's contract names, written out
OutOfRange(a) ==
    \/ a.western_lon # <<>> /\ (a.western_lon[1] < 0 \/ a.western_lon[1] > 360)
    \/ a.eastern_lon # <<>> /\ (a.eastern_lon[1] < 0 \/ a.eastern_lon[1] > 360)
    \/ a.min_lat # <<>> /\ (a.min_lat[1] < -90 \/ a.min_lat[1] > 90)
    \/ a.max_lat # <<>> /\ (a.max_lat[1] < -90 \/ a.max_lat[1] > 90)
    \/ a.number_product_limit < 1
    \/ a.number_product_limit > 100

\* C6: construction fails exactly when a longitude, a latitude or the result
\* limit is out of its range; a failed construction leaves no object and has
\* called neither the resolver nor the cache.
C6_RangeValidation ==
    pc # "new" =>
        /\ (pc = "ctor_failed") <=> OutOfRange(args[1])
        /\ pc = "ctor_failed" =>
            /\ err = "AssertionError"
            /\ self = <<>>
            /\ resolverLog = <<>>
            /\ cacheLog = <<>>
        /\ pc = "constructed" => (err = "none" /\ self # <<>>)

\* an eastern longitude just above 360 with everything else on a boundary
C6_Witness ==
    /\ pc = "ctor_failed"
    /\ args[1].eastern_lon = <<361>>
    /\ args[1].western_lon = <<360>>
    /\ args[1].min_lat = <<-90>>
    /\ args[1].max_lat = <<90>>
    /\ args[1].number_product_limit = 100

\* C7: every object that was constructed has a result offset >= 0.
C7_OffsetValidated ==
    pc = "constructed" => args[1].result_offset_number >= 0

\* the resolver has returned, and returned the empty mapping
ResolvedEmpty ==
    /\ resolverLog # <<>>
    /\ err \notin ResolverErrors
    /\ file_urls = <<>>

\* C8: after the resolver returned an empty mapping, output() raises
\* nothing, decodes nothing, goes on to return, and what it returns is a
\* wrapper around an empty Grouped Result.
C8_EmptyMapping ==
    ResolvedEmpty =>
        /\ pc # "failed"
        /\ err = "none"
        /\ decodeLog = <<>>
        /\ pc # "done" => ENABLED Next
        /\ pc = "done" => ret = <<[obj_wrap |-> <<>>]>>

\* the empty mapping, for which the cache handed back one path too many
C8_Witness ==
    /\ ResolvedEmpty
    /\ pc = "done"
    /\ downloaded_files = <<LocalPath("u1")>>
    /\ ret = <<[obj_wrap |-> <<>>]>>

\* C9: output() does not fail with the resolver's NoResultsError.
C9_NoResultsTolerated ==
    pc = "failed" => err # "NoResultsError"

\* C10: at most one resolver call and one cache call per output(); the cache
\* call comes after the resolver call, under namespace 'ode', with the
\* mapping's remote locations in mapping order; files are decoded only after
\* the cache call, and assembling or returning means exactly one call each.
C10_StepOrder ==
    /\ Len(resolverLog) <= 1
    /\ Len(cacheLog) <= 1
    /\ cacheLog # <<>> =>
        /\ Len(resolverLog) = 1
        /\ cacheLog[1].namespace = "ode"
        /\ cacheLog[1].locations = [i \in 1..Len(file_urls) |-> EntryLocation(i)]
    /\ decodeLog # <<>> => (Len(cacheLog) = 1 /\ pc \in {"assembling", "done", "failed"})
    /\ pc \in {"assembling", "done"} => (Len(resolverLog) = 1 /\ Len(cacheLog) = 1)
    /\ pc = "resolved" => (Len(resolverLog) = 1 /\ cacheLog = <<>> /\ decodeLog = <<>>)

\* a finished call that fetched three locations in the mapping's order and
\* decoded two files
C10_Witness ==
    /\ pc = "done"
    /\ Keys(file_urls) = <<"u3", "u1", "u5">>
    /\ cacheLog = <<[namespace |-> "ode", locations |-> <<"u3", "u1", "u5">>]>>
    /\ Len(resolverLog) = 1
    /\ decodeLog = <<LocalPath("u3"), LocalPath("u1")>>

====
